---- MODULE Spec2Model ----
(***************************************************************************)
(* Habit tracker: the habit/task lifecycle engine.                         *)
(*                                                                         *)
(* The state is the content of the two SQLite tables (habit, task) plus    *)
(* history variables: op records the last engine call and its result, sc   *)
(* follows one habit through the end-to-end scenario.  One action per      *)
(* engine entry point; each action is the whole call, every store write it *)
(* issues included.  Dates are day numbers (the code  *)
(* keeps 'YYYY-MM-DD' strings and goes through strptime/strftime for every *)
(* computation; on well-formed dates that round trip is the day number).   *)
(* Free-text columns that no rule reads (category, created) are left out.  *)
(*                                                                         *)
(* A store write can fail (sqlite3.Error is caught by the connector and    *)
(* turned into -1 / False).  Every action takes the set F of write points  *)
(* that fail during the call: Spec runs with a reliable store (F = {}),    *)
(* SpecF lets up to MaxFaults writes of a run fail.                        *)
(*                                                                         *)
(* The functions that read no store (date rules, elapsed days, filter and  *)
(* sort of the analytics listing) are applied one call at a time to inputs *)
(* from bounded sets under SpecD; op then holds the call and its result.   *)
(***************************************************************************)
EXTENDS Integers, FiniteSets, Sequences, TLC

VARIABLES habit, task, op, sc

vars == <<habit, task, op, sc>>

----------------------------------------------------------------------------
(* Bounds of the exploration *)

MaxHabitId == 2      \* largest habit row id explored
MaxTaskId == 4       \* largest task row id explored
MaxCount == 2        \* cap on streak / reset counters
MaxRows == 2         \* rows selected in one process_task_updates call
MaxFaults == 1       \* failing store writes in one run (SpecF)
MaxTaskInput == 2    \* largest task count offered at creation
MaxCalls == 3        \* engine calls in one run
MaxGenCalls == 4     \* engine calls in one run that follows a habit to its end (SpecG)
MaxDay == 3          \* latest day number given to the elapsed-days functions
MaxLen == 3          \* longest list given to filter and sort

(* Program constants *)

MaxTasksPerHabit == 10   \* validators.py: "Maximum 10 tasks allowed per habit"
DayStep == 1             \* timedelta(days=1)
WeekStep == 7            \* timedelta(weeks=1)

(* Sentinels for values a dict entry can hold besides a well-formed one *)

NoDate == -1         \* key absent / None / ''
BadDate == -2        \* a string strptime('%Y-%m-%d') rejects
NoId == 0            \* no row id (None / -1)

----------------------------------------------------------------------------
(* Input alphabets *)

Desc == "d"
TaskDesc == "t"
Statuses == {"done", "ignore", "pause habit", "bogus"}
ClockDates == {0, 2}


HabitData(n, s, e, i, r, k) ==
    [name |-> n, description |-> Desc, start |-> s, end |-> e, stop |-> NoDate,
     importance |-> i, repeat |-> r, tasks |-> k, tasks_description |-> TaskDesc]

\* valid inputs, start 0: the next due date falls before, on and after the end date for
\* both recurrences, with one task and with MaxTaskInput tasks per series
ValidInputs ==
    { HabitData("a", 0, 2 * DayStep, "High", "Daily", 1),
      HabitData("a", 0, WeekStep, "High", "Weekly", MaxTaskInput),
      HabitData("b", 0, DayStep, "High", "Daily", MaxTaskInput),
      HabitData("b", 0, 2 * DayStep, "Low", "Weekly", 1) }

\* one field of a valid input spoiled
InvalidInputs ==
    { HabitData("a", 1, 1, "High", "Daily", 1),
      HabitData("a", 2, 1, "High", "Daily", 1),
      HabitData("a", 0, NoDate, "High", "Daily", 1),
      HabitData("a", 0, BadDate, "High", "Daily", 1),
      HabitData("a", 0, 1, "Medium", "Daily", 1),
      HabitData("a", 0, 1, "High", "Monthly", 1),
      HabitData("a", 0, 1, "High", "Daily", 0),
      HabitData("a", 0, 1, "High", "Daily", MaxTasksPerHabit + 1),
      HabitData("", 0, 1, "High", "Daily", 1) }

HabitInputs == ValidInputs \cup InvalidInputs

UpdateInputs ==
    {<<"end", e>> : e \in {BadDate, 0, DayStep}}
    \cup {<<"start", 1>>, <<"stop", 2>>, <<"repeat", "Weekly">>}
    \cup {<<"importance", i>> : i \in {"Paused", "Low"}}

\* what the model layer is given: records the validator would reject, and a valid one
ModelInputs ==
    { HabitData("a", 2 * DayStep, DayStep, "High", "Daily", 1),
      HabitData("c", 0, DayStep, "High", "Monthly", 1),
      HabitData("c", 0, 2 * DayStep, "High", "Daily", 1) }

ModelUpdates == {<<"end", 0>>, <<"repeat", "Monthly">>, <<"stop", DayStep>>}

----------------------------------------------------------------------------
(* Write points of a call that can fail *)

FStatus(t) == t                      \* UPDATE task SET status of row t
FHabitWrite == MaxTaskId + 1         \* first write to the habit table
FHabitWrite2 == MaxTaskId + 2        \* second write to the habit table
FTaskDelete == MaxTaskId + 3         \* DELETE FROM task WHERE habit_id = ?
FInsert(n) == MaxTaskId + 3 + n      \* INSERT of task number n
FRead == MaxTaskId + MaxTaskInput + 4   \* SELECT * FROM habit

\* the failing writes a call can meet among its write points P: a run sees at most
\* MaxFaults failing writes in all
FaultSets(P) == {F \in SUBSET P : op.faults + Cardinality(F) <= MaxFaults}
NoFaults == {}

Inserts == {FInsert(n) : n \in 1 .. MaxTaskInput}

----------------------------------------------------------------------------
(* The record store: database/connector.py, database/operations.py *)

Max(S) == CHOOSE x \in S : \A y \in S : y <= x

\* sqlite rowid of an INTEGER PRIMARY KEY without AUTOINCREMENT
NextId(tbl) == IF DOMAIN tbl = {} THEN 1 ELSE Max(DOMAIN tbl) + 1

Put(tbl, id, rec) == [i \in DOMAIN tbl \cup {id} |-> IF i = id THEN rec ELSE tbl[i]]

Drop(tbl, ids) == [i \in DOMAIN tbl \ ids |-> tbl[i]]

\* DatabaseController._check_duplicates for the habit table: name and description
HabitDuplicate(htbl, data) ==
    \E h \in DOMAIN htbl : htbl[h].name = data.name /\ htbl[h].description = data.description

\* DatabaseController._check_duplicates for the task table
TaskDuplicate(ttbl, rec) ==
    \E t \in DOMAIN ttbl :
        /\ ttbl[t].task_description = rec.task_description
        /\ ttbl[t].habit_id = rec.habit_id
        /\ ttbl[t].task_number = rec.task_number
        /\ ttbl[t].due_date = rec.due_date

\* DatabaseController.create_data('task', rec): the table afterwards
CreateTask(ttbl, rec, fail) ==
    IF fail \/ TaskDuplicate(ttbl, rec) THEN ttbl ELSE Put(ttbl, NextId(ttbl), rec)

\* DatabaseController.update_data('habit', h, patch): found and written
UpdateOk(htbl, h, fail) == h \in DOMAIN htbl /\ ~fail

\* the habit row deleted without its tasks
DeleteTasksOfNone(ttbl, h, fail) == ttbl

\* DatabaseController.delete_data('habit', h): tasks first (result ignored), then the row
DeleteTasksOf(ttbl, h, fail) ==
    IF fail THEN ttbl ELSE Drop(ttbl, {t \in DOMAIN ttbl : ttbl[t].habit_id = h})

DeleteHabitRow(htbl, h, fail) == IF fail THEN htbl ELSE Drop(htbl, {h})

\* DatabaseController.read_data('habit'): the ids of the rows fetched; the connector
\* returns [] when the SELECT raises sqlite3.Error
ReadDataRows(htbl, fail) == IF fail THEN {} ELSE DOMAIN htbl

----------------------------------------------------------------------------
(* utils/validators.py *)

\* HabitValidator.validate_habit_data(data, updating_field), clock reading today
ValidateHabitData(data, updating_field, today) ==
    /\ data.name # "" /\ data.description # ""
    /\ data.start # NoDate /\ data.end # NoDate
    /\ data.importance # "" /\ data.repeat # ""
    /\ data.tasks # 0 /\ data.tasks_description # ""
    /\ data.tasks >= 1
    /\ data.tasks <= MaxTasksPerHabit
    /\ data.start # BadDate /\ data.end # BadDate
    /\ ~(data.start >= data.end)
    /\ ~(updating_field = "start" /\ data.start < today)
    /\ data.importance \in {"Paused", "Low", "High"}
    /\ data.repeat \in {"Daily", "Weekly"}

----------------------------------------------------------------------------
(* History variables *)

\* the call just made: entry point, habit id given or assigned, result, failing writes,
\* the remaining arguments, whether the habit record given (or resulting from the one
\* field replaced) passes validate_habit_data, and the calls and failing writes of the
\* run so far
OpRec(name, hid, ok, F) ==
    [name |-> name, hid |-> hid, ok |-> ok, F |-> F,
     rows |-> {}, status |-> "", field |-> "", date |-> NoDate, count |-> 0,
     valid |-> TRUE,
     n |-> op.n + 1, budget |-> op.budget,
     faults |-> op.faults + Cardinality(F)]

\* a run makes at most op.budget calls
MoreCalls == op.n < op.budget

\* exploration stays within the row ids and counters the bounds allow
Bounded(htbl, ttbl) ==
    /\ \A h \in DOMAIN htbl :
        /\ h <= MaxHabitId
        /\ htbl[h].streak <= MaxCount
        /\ htbl[h].streak_reset_count <= MaxCount
    /\ \A t \in DOMAIN ttbl : t <= MaxTaskId

----------------------------------------------------------------------------
(* Monitor of the end-to-end scenario of the specification: a Daily habit with   *)
(* end = start + 2 and one task per series, whose series are resolved one at a   *)
(* time as done, ignore, done.  sc.step counts the scenario steps taken so far   *)
(* by habit sc.h (1 = created); any other call naming that habit ends the watch. *)

ScExpected(step) == IF step = 2 THEN "ignore" ELSE "done"

ScIsStart(o, htbl) ==
    /\ o.name = "create_habit" /\ o.ok
    /\ htbl[o.hid].repeat = "Daily"
    /\ htbl[o.hid].end = htbl[o.hid].start + 2 * DayStep
    /\ htbl[o.hid].tasks = 1

ScIsStep(o) ==
    /\ sc.step \in 1 .. 3
    /\ o.name = "process_task_updates" /\ o.ok /\ o.status = ScExpected(sc.step)
    /\ \E t \in DOMAIN task :
        /\ o.rows = {t}
        /\ task[t].habit_id = sc.h
        /\ task[t].status = "pending"
        /\ task[t].due_date = habit[sc.h].start + (sc.step - 1) * DayStep

ScTouches(o) ==
    \/ o.hid = sc.h
    \/ \E t \in o.rows : t \in DOMAIN task /\ task[t].habit_id = sc.h

ScNext(o, htbl, ttbl) ==
    IF sc.step = 0
    THEN IF ScIsStart(o, htbl) THEN [h |-> o.hid, step |-> 1] ELSE sc
    ELSE IF ScIsStep(o) THEN [sc EXCEPT !.step = @ + 1]
    ELSE IF ScTouches(o) THEN [h |-> NoId, step |-> 0]
    ELSE sc

----------------------------------------------------------------------------
(* controllers/habit.py: create_habit *)

\* the row create_habit inserts: the given keys, streak 0, the schema defaults
NewHabitRow(data) ==
    [name |-> data.name, description |-> data.description,
     start |-> data.start, end |-> data.end,
     importance |-> data.importance, repeat |-> data.repeat,
     tasks |-> data.tasks, tasks_description |-> data.tasks_description,
     streak |-> 0, streak_reset_count |-> 0, longest_streak |-> 0]

\* numbering from range(num_tasks) instead of range(1, num_tasks + 1)
NewTaskRowFromZero(h, n, desc, due) ==
    [habit_id |-> h, task_number |-> n - 1, task_description |-> desc,
     due_date |-> due, status |-> "pending"]

NewTaskRow(h, n, desc, due) ==
    [habit_id |-> h, task_number |-> n, task_description |-> desc,
     due_date |-> due, status |-> "pending"]

\* the insert loop shared by the series creators: task numbers n..N at one due date;
\* stopOnFail tells the loops that return at the first failed insert from those that go on
RECURSIVE InsertSeries(_, _, _, _, _, _, _, _)
InsertSeries(ttbl, n, N, h, desc, due, F, stopOnFail) ==
    IF n > N THEN ttbl
    ELSE LET rec == NewTaskRow(h, n, desc, due)
             failed == FInsert(n) \in F \/ TaskDuplicate(ttbl, rec)
         IN IF failed /\ stopOnFail THEN ttbl
            ELSE InsertSeries(CreateTask(ttbl, rec, FInsert(n) \in F),
                              n + 1, N, h, desc, due, F, stopOnFail)

\* HabitController._create_habit_tasks: succeeds when at least one insert did
CreateHabitTasksOk(before, after) == DOMAIN after # DOMAIN before

CreateHabit(data, F) ==
    LET valid == ValidateHabitData(data, "", 0)
        inserted == valid /\ ~HabitDuplicate(habit, data) /\ FHabitWrite \notin F
        h == NextId(habit)
        habit1 == Put(habit, h, NewHabitRow(data))
        task1 == InsertSeries(task, 1, data.tasks, h, data.tasks_description,
                              data.start, F, FALSE)
        tasksOk == CreateHabitTasksOk(task, task1)
        \* rollback: db_controller.delete_data('habit', habit_id)
        task2 == DeleteTasksOf(task1, h, FTaskDelete \in F)
        habit2 == DeleteHabitRow(habit1, h, FHabitWrite2 \in F)
    IN /\ MoreCalls
       /\ habit' = IF ~inserted THEN habit ELSE IF tasksOk THEN habit1 ELSE habit2
       /\ task' = IF ~inserted THEN task ELSE IF tasksOk THEN task1 ELSE task2
       /\ op' = [OpRec("create_habit", IF inserted THEN h ELSE NoId,
                       inserted /\ tasksOk, F)
                 EXCEPT !.date = data.start, !.count = IF inserted THEN data.tasks ELSE 0,
                        !.valid = valid]
       /\ sc' = ScNext(op', habit', task')
       /\ Bounded(habit', task')

----------------------------------------------------------------------------
(* controllers/habit.py: the streak and pause writers *)

\* HabitController.increment_reset_counter: read, then write streak_reset_count + 1
IncrementResetCounter(htbl, h, fail) ==
    IF h \in DOMAIN htbl /\ ~fail
    THEN [htbl EXCEPT ![h].streak_reset_count = @ + 1]
    ELSE htbl

\* HabitController.increment_streak: read, then write streak + 1; nothing else
IncrementStreakTbl(htbl, h, F) ==
    IF UpdateOk(htbl, h, FHabitWrite \in F)
    THEN [htbl EXCEPT ![h].streak = @ + 1]
    ELSE htbl

\* HabitController.pause_habit: one write of streak and importance, then the
\* reset counter in a write of its own whose result is dropped
PauseHabitTbl(htbl, h, F) ==
    IF UpdateOk(htbl, h, FHabitWrite \in F)
    THEN IncrementResetCounter([htbl EXCEPT ![h].streak = 0, ![h].importance = "Paused"],
                               h, FHabitWrite2 \in F)
    ELSE htbl

\* HabitController.reset_streak: write streak 0, then the reset counter likewise
ResetStreakTbl(htbl, h, F) ==
    IF UpdateOk(htbl, h, FHabitWrite \in F)
    THEN IncrementResetCounter([htbl EXCEPT ![h].streak = 0], h, FHabitWrite2 \in F)
    ELSE htbl

IncrementStreak(h, F) ==
    /\ MoreCalls
    /\ habit' = IncrementStreakTbl(habit, h, F)
    /\ task' = task
    /\ op' = OpRec("increment_streak", h, UpdateOk(habit, h, FHabitWrite \in F), F)
    /\ sc' = ScNext(op', habit', task')
    /\ Bounded(habit', task')

ResetStreak(h, F) ==
    /\ MoreCalls
    /\ habit' = ResetStreakTbl(habit, h, F)
    /\ task' = task
    /\ op' = OpRec("reset_streak", h, UpdateOk(habit, h, FHabitWrite \in F), F)
    /\ sc' = ScNext(op', habit', task')
    /\ Bounded(habit', task')

PauseHabit(h, F) ==
    /\ MoreCalls
    /\ habit' = PauseHabitTbl(habit, h, F)
    /\ task' = task
    /\ op' = OpRec("pause_habit", h, UpdateOk(habit, h, FHabitWrite \in F), F)
    /\ sc' = ScNext(op', habit', task')
    /\ Bounded(habit', task')

----------------------------------------------------------------------------
(* controllers/habit.py: process_habit_update, update_habit *)

Columns == {"name", "description", "start", "end", "importance", "repeat",
            "tasks", "tasks_description", "streak", "streak_reset_count",
            "longest_streak"}

\* the dict both update paths build from the stored row: the end date goes
\* under the key 'stop', the key 'end' is not set
PrepareUpdateData(row) ==
    [name |-> row.name, description |-> row.description,
     start |-> row.start, stop |-> row.end, end |-> NoDate,
     importance |-> row.importance, repeat |-> row.repeat,
     tasks |-> row.tasks, tasks_description |-> row.tasks_description]

\* the stored habit as a record of its own column names, with the one field replaced
UpdatedRecord(row, field, value) ==
    LET data == [name |-> row.name, description |-> row.description,
                 start |-> row.start, end |-> row.end, stop |-> NoDate,
                 importance |-> row.importance, repeat |-> row.repeat,
                 tasks |-> row.tasks, tasks_description |-> row.tasks_description]
    IN IF field \in DOMAIN data THEN [data EXCEPT ![field] = value] ELSE data

\* the record with the one field replaced, validated as a whole
ValidateUpdate(htbl, h, field, value, today) ==
    /\ h \in DOMAIN htbl
    /\ ValidateHabitData([PrepareUpdateData(htbl[h]) EXCEPT ![field] = value], field, today)

\* HabitController.update_habit(h, {field: value}) after its validation
UpdateHabitOk(htbl, h, field, F) ==
    UpdateOk(htbl, h, FHabitWrite \in F) /\ field \in Columns

UpdateHabitTbl(htbl, h, field, value, F) ==
    IF UpdateHabitOk(htbl, h, field, F) THEN [htbl EXCEPT ![h][field] = value] ELSE htbl

IsPause(field, value) == field = "importance" /\ value = "Paused"

ProcessHabitUpdate(h, field, value, today, F) ==
    LET valid == ValidateUpdate(habit, h, field, value, today)
    IN /\ MoreCalls
       /\ habit' = IF ~valid THEN habit
                   ELSE IF IsPause(field, value) THEN PauseHabitTbl(habit, h, F)
                   ELSE UpdateHabitTbl(habit, h, field, value, F)
       /\ task' = task
       /\ op' = [OpRec("process_habit_update", h,
                       valid /\ IF IsPause(field, value)
                                THEN UpdateOk(habit, h, FHabitWrite \in F)
                                ELSE UpdateHabitOk(habit, h, field, F), F)
                 EXCEPT !.field = field,
                        !.status = IF IsPause(field, value) THEN "Paused" ELSE "",
                        !.valid = /\ h \in DOMAIN habit
                                  /\ ValidateHabitData(
                                         UpdatedRecord(habit[h], field, value),
                                         field, today)]
       /\ sc' = ScNext(op', habit', task')
       /\ Bounded(habit', task')

----------------------------------------------------------------------------
(* controllers/habit.py: delete_habit *)

DeleteHabit(h, F) ==
    LET found == h \in DOMAIN habit
    IN /\ MoreCalls
       /\ task' = IF found THEN DeleteTasksOf(task, h, FTaskDelete \in F) ELSE task
       /\ habit' = IF found THEN DeleteHabitRow(habit, h, FHabitWrite \in F) ELSE habit
       /\ op' = OpRec("delete_habit", h, found /\ FHabitWrite \notin F, F)
       /\ sc' = ScNext(op', habit', task')
       /\ Bounded(habit', task')

----------------------------------------------------------------------------
(* models/habit.py: the streak methods of a Habit object just loaded from the store *)

\* Habit.increment_streak: write streak + 1; then update_longest_streak writes
\* longest_streak when the new streak exceeds it
HabitIncrementStreakOk(htbl, h, F) ==
    /\ UpdateOk(htbl, h, FHabitWrite \in F)
    /\ (htbl[h].streak + 1 > htbl[h].longest_streak => FHabitWrite2 \notin F)

HabitIncrementStreakTbl(htbl, h, F) ==
    IF UpdateOk(htbl, h, FHabitWrite \in F)
    THEN IF htbl[h].streak + 1 > htbl[h].longest_streak /\ FHabitWrite2 \notin F
         THEN [htbl EXCEPT ![h].streak = @ + 1, ![h].longest_streak = htbl[h].streak + 1]
         ELSE [htbl EXCEPT ![h].streak = @ + 1]
    ELSE htbl

\* Habit.reset_streak: write streak 0; then increment_reset_counter
HabitResetStreakOk(htbl, h, F) ==
    UpdateOk(htbl, h, FHabitWrite \in F) /\ FHabitWrite2 \notin F

HabitResetStreakTbl(htbl, h, F) == ResetStreakTbl(htbl, h, F)

HabitIncrementStreak(h, F) ==
    /\ MoreCalls
    /\ h \in DOMAIN habit
    /\ habit' = HabitIncrementStreakTbl(habit, h, F)
    /\ task' = task
    /\ op' = OpRec("Habit.increment_streak", h, HabitIncrementStreakOk(habit, h, F), F)
    /\ sc' = ScNext(op', habit', task')
    /\ Bounded(habit', task')

HabitResetStreak(h, F) ==
    /\ MoreCalls
    /\ h \in DOMAIN habit
    /\ habit' = HabitResetStreakTbl(habit, h, F)
    /\ task' = task
    /\ op' = OpRec("Habit.reset_streak", h, HabitResetStreakOk(habit, h, F), F)
    /\ sc' = ScNext(op', habit', task')
    /\ Bounded(habit', task')

\* Habit.create(data): the row is inserted as given, with no validation; the store
\* refuses a duplicate (name, description) and a NULL in the NOT NULL column start
HabitCreateOk(htbl, data, F) ==
    /\ ~HabitDuplicate(htbl, data)
    /\ data.start # NoDate
    /\ FHabitWrite \notin F

HabitCreate(data, F) ==
    LET inserted == HabitCreateOk(habit, data, F)
        h == NextId(habit)
    IN /\ MoreCalls
       /\ habit' = IF inserted THEN Put(habit, h, NewHabitRow(data)) ELSE habit
       /\ task' = task
       /\ op' = [OpRec("Habit.create", IF inserted THEN h ELSE NoId, inserted, F)
                 EXCEPT !.date = data.start, !.valid = ValidateHabitData(data, "", 0)]
       /\ sc' = ScNext(op', habit', task')
       /\ Bounded(habit', task')

\* Habit.update({field: value}) on a Habit object with id h: the write of update_data
HabitUpdate(h, field, value, F) ==
    /\ MoreCalls
    /\ h \in DOMAIN habit
    /\ habit' = UpdateHabitTbl(habit, h, field, value, F)
    /\ task' = task
    /\ op' = [OpRec("Habit.update", h, UpdateHabitOk(habit, h, field, F), F)
              EXCEPT !.field = field,
                     !.status = IF IsPause(field, value) THEN "Paused" ELSE "",
                     !.valid = ValidateHabitData(UpdatedRecord(habit[h], field, value),
                                                 field, 0)]
    /\ sc' = ScNext(op', habit', task')
    /\ Bounded(habit', task')

----------------------------------------------------------------------------
(* database/operations.py: read_data as the views call it *)

ReadData(F) ==
    /\ MoreCalls
    /\ habit' = habit
    /\ task' = task
    /\ op' = [OpRec("read_data", NoId, TRUE, F)
              EXCEPT !.rows = ReadDataRows(habit, FRead \in F)]
    /\ sc' = sc

----------------------------------------------------------------------------
(* controllers/task.py: status update and rollover *)

\* the series of habit h due on d: the task rows with that key
SeriesOf(ttbl, h, d) == {t \in DOMAIN ttbl : ttbl[t].habit_id = h /\ ttbl[t].due_date = d}

\* TaskController._validate_status
ValidateStatus(status) == status \in {"done", "ignore", "pause habit"}

\* TaskController.update_task_status: valid status, row found, status written
UpdateTaskStatusOk(ttbl, t, status, F) ==
    ValidateStatus(status) /\ t \in DOMAIN ttbl /\ FStatus(t) \notin F

\* TaskController.check_task_completion_status
AllDone(ttbl, S) == \A t \in S : ttbl[t].status = "done"
\* every series taken as handled, whatever its statuses
AllHandledAlways(ttbl, S) == TRUE

AllHandled(ttbl, S) == \A t \in S : ttbl[t].status \in {"done", "ignore"}

\* TaskController.calculate_next_due_date
CalculateNextDueDate(repeat, current_due) ==
    IF repeat = "Daily" THEN current_due + DayStep
    ELSE IF repeat = "Weekly" THEN current_due + WeekStep
    ELSE current_due

\* the end date taken as exclusive: next_due >= stop ends the habit
CreateNextTasksExclusive(ttbl, htbl, h, d, F) ==
    IF h \notin DOMAIN htbl \/ htbl[h].end = NoDate THEN ttbl
    ELSE LET next_due == CalculateNextDueDate(htbl[h].repeat, d)
         IN IF next_due >= htbl[h].end THEN ttbl
            ELSE InsertSeries(ttbl, 1, Cardinality(SeriesOf(ttbl, h, d)), h,
                              htbl[h].tasks_description, next_due, F, FALSE)

\* TaskController.create_next_tasks(habit_id, due_date, tasks): as many tasks as the
\* resolved series has, at the next due date unless that is after the end date
CreateNextTasks(ttbl, htbl, h, d, F) ==
    IF h \notin DOMAIN htbl \/ htbl[h].end = NoDate THEN ttbl
    ELSE LET next_due == CalculateNextDueDate(htbl[h].repeat, d)
         IN IF next_due > htbl[h].end THEN ttbl
            ELSE InsertSeries(ttbl, 1, Cardinality(SeriesOf(ttbl, h, d)), h,
                              htbl[h].tasks_description, next_due, F, FALSE)

----------------------------------------------------------------------------
(* task_overview.py: process_task_updates.  The ui_handler it calls is the       *)
(* UserInputHandler of ui_db_handler, a module that is not among the sources.    *)
(* Its task methods (update_task_status, get_tasks_for_habit,                    *)
(* check_task_completion_status, create_next_tasks) are the TaskController       *)
(* methods of the same names and signatures; its increment_streak is the         *)
(* operation the specification states.                                           *)

\* the (habit id, due date) keys of the rows whose status was written
TouchedKeys(ttbl, updated) == {<<ttbl[t].habit_id, ttbl[t].due_date>> : t \in updated}

\* one increment for each habit with a touched series, resolved or not
StreakHabitsTouched(ttbl, keys) == {k[1] : k \in keys}

\* TaskOverview._handle_streak_updates: one increment for each habit with a touched
\* series whose tasks are all done
StreakHabits(ttbl, keys) == {k[1] : k \in {k \in keys : AllDone(ttbl, SeriesOf(ttbl, k[1], k[2]))}}

\* UserInputHandler.increment_streak, as specified: streak + 1, and the longest streak
\* raised to the new streak when that is higher, both in one write
UserInputHandlerIncrementStreak(htbl, h, F) ==
    IF UpdateOk(htbl, h, FHabitWrite \in F)
    THEN [htbl EXCEPT ![h].streak = @ + 1,
                      ![h].longest_streak = Max({@, htbl[h].streak + 1})]
    ELSE htbl

HandleStreakUpdatesNone(htbl, ttbl, keys, F) == htbl

HandleStreakUpdates(htbl, ttbl, keys, F) ==
    [h \in DOMAIN htbl |->
        IF h \in StreakHabits(ttbl, keys)
        THEN UserInputHandlerIncrementStreak(htbl, h, F)[h]
        ELSE htbl[h]]

\* TaskOverview._create_next_tasks: the touched keys one after the other
RECURSIVE CreateNextTasksAll(_, _, _, _)
CreateNextTasksAll(ttbl, htbl, ord, F) ==
    IF ord = <<>> THEN ttbl
    ELSE LET S == SeriesOf(ttbl, ord[1][1], ord[1][2])
             ttbl1 == IF S # {} /\ AllHandled(ttbl, S)
                      THEN CreateNextTasks(ttbl, htbl, ord[1][1], ord[1][2], F)
                      ELSE ttbl
         IN CreateNextTasksAll(ttbl1, htbl, Tail(ord), F)

\* the orders in which a dict of sets can yield the keys: habit by habit
KeyOrders(keys) ==
    {ord \in [1 .. Cardinality(keys) -> keys] :
        /\ \A i, j \in DOMAIN ord : i # j => ord[i] # ord[j]
        /\ \A i, j, k \in DOMAIN ord :
              (i < j /\ j < k /\ ord[i][1] = ord[k][1]) => ord[j][1] = ord[i][1]}

ProcessTaskUpdates(rows, status, F) ==
    LET updated == {t \in rows : UpdateTaskStatusOk(task, t, status, F)}
        task1 == [t \in DOMAIN task |->
                    IF t \in updated THEN [task[t] EXCEPT !.status = status] ELSE task[t]]
        keys == TouchedKeys(task1, updated)
        habit1 == IF status = "done" THEN HandleStreakUpdates(habit, task1, keys, F)
                  ELSE habit
    IN \E ord \in KeyOrders(keys) :
        /\ MoreCalls
        /\ habit' = habit1
        /\ task' = CreateNextTasksAll(task1, habit1, ord, F)
        /\ op' = [OpRec("process_task_updates", NoId, updated = rows, F)
                  EXCEPT !.rows = rows, !.status = status]
        /\ sc' = ScNext(op', habit', task')
        /\ Bounded(habit', task')

----------------------------------------------------------------------------
(* models/task.py: Task.create_next_series *)

\* DateUtils.get_next_date: None (NoDate) for a recurrence other than Daily, Weekly
GetNextDate(d, repeat) ==
    IF repeat = "Daily" THEN d + DayStep
    ELSE IF repeat = "Weekly" THEN d + WeekStep
    ELSE NoDate

\* Task._is_past_end_date: a habit without end date never ends
IsPastEndDate(next_due, end) == end # NoDate /\ next_due > end

\* whether Task.create_next_series(h, d, tasks) goes on to create the series
NextSeriesDue(htbl, h, d) ==
    /\ h \in DOMAIN htbl
    /\ GetNextDate(d, htbl[h].repeat) # NoDate
    /\ ~IsPastEndDate(GetNextDate(d, htbl[h].repeat), htbl[h].end)

\* Task._create_task_series: habit.tasks tasks, given up at the first failed save
CreateNextSeriesTbl(ttbl, htbl, h, d, F) ==
    IF NextSeriesDue(htbl, h, d)
    THEN InsertSeries(ttbl, 1, htbl[h].tasks, h, htbl[h].tasks_description,
                      GetNextDate(d, htbl[h].repeat), F, TRUE)
    ELSE ttbl

CreateNextSeriesOk(ttbl, htbl, h, d, F) ==
    /\ NextSeriesDue(htbl, h, d)
    /\ Cardinality(DOMAIN CreateNextSeriesTbl(ttbl, htbl, h, d, F))
         = Cardinality(DOMAIN ttbl) + htbl[h].tasks

\* called by the owner of a series once all its tasks are handled
TaskCreateNextSeries(h, d, F) ==
    /\ MoreCalls
    /\ SeriesOf(task, h, d) # {}
    /\ AllHandled(task, SeriesOf(task, h, d))
    /\ habit' = habit
    /\ task' = CreateNextSeriesTbl(task, habit, h, d, F)
    /\ op' = [OpRec("Task.create_next_series", h, CreateNextSeriesOk(task, habit, h, d, F), F)
              EXCEPT !.date = d]
    /\ sc' = ScNext(op', habit', task')
    /\ Bounded(habit', task')

----------------------------------------------------------------------------
(* The pending-task listings; the clock reads today *)

\* a listed task joined with its habit's name and streak
TaskView(ttbl, htbl, t) ==
    [id |-> t, habit_name |-> htbl[ttbl[t].habit_id].name,
     streak |-> htbl[ttbl[t].habit_id].streak]

\* the tasks of Paused habits listed along with the others
TaskGetPendingWithPaused(ttbl, htbl, today) ==
    LET tasks == {t \in DOMAIN ttbl : ttbl[t].status = "pending"}
        due == {t \in tasks : ttbl[t].due_date <= today}
        kept == {t \in due : ttbl[t].habit_id \in DOMAIN htbl}
    IN {TaskView(ttbl, htbl, t) : t \in kept}

\* Task.get_pending: the pending rows, of those the ones due today or earlier whose
\* habit is found and is not Paused
TaskGetPending(ttbl, htbl, today) ==
    LET tasks == {t \in DOMAIN ttbl : ttbl[t].status = "pending"}
        due == {t \in tasks : ttbl[t].due_date <= today}
        kept == {t \in due : /\ ttbl[t].habit_id \in DOMAIN htbl
                              /\ htbl[ttbl[t].habit_id].importance # "Paused"}
    IN {TaskView(ttbl, htbl, t) : t \in kept}

\* TaskOverview.get_pending_tasks: every row is skipped whose habit is Paused, whose
\* status is not pending or whose due date is after today; habit_names[habit_id] raises
\* KeyError for a remaining row whose habit is not in the habit table
GetPendingTasks(ttbl, htbl, today) ==
    LET importance(t) == IF ttbl[t].habit_id \in DOMAIN htbl
                         THEN htbl[ttbl[t].habit_id].importance ELSE ""
        kept == {t \in DOMAIN ttbl : ~ \/ importance(t) = "Paused"
                                       \/ ttbl[t].status # "pending"
                                       \/ ttbl[t].due_date > today}
    IN IF \E t \in kept : ttbl[t].habit_id \notin DOMAIN htbl
       THEN [raised |-> TRUE, rows |-> {}]
       ELSE [raised |-> FALSE, rows |-> {TaskView(ttbl, htbl, t) : t \in kept}]

----------------------------------------------------------------------------
(* models/analytics.py: success rate.  Day 0 of the calendar is a Monday. *)

\* Analytics._group_tasks_by_period: the key of a due date is the Monday of its week for
\* a Weekly habit, the due date itself otherwise
PeriodKey(repeat, due_date) ==
    IF repeat = "Weekly" THEN due_date - (due_date % WeekStep) ELSE due_date

GroupTasksByPeriod(ttbl, tasks, repeat) ==
    [k \in {PeriodKey(repeat, ttbl[t].due_date) : t \in tasks} |->
        {t \in tasks : PeriodKey(repeat, ttbl[t].due_date) = k}]

\* "{:.0f}".format(num / den * 100): the nearest whole number, a tie to the even one
RoundedPercent(num, den) ==
    LET q == (100 * num) \div den
        r == (100 * num) % den
    IN IF 2 * r > den \/ (2 * r = den /\ q % 2 = 1) THEN q + 1 ELSE q

\* what the success rate reads: "N/A", "<pct>%", or None when no habit is found
NotAvailable == [text |-> "N/A", pct |-> 0]
Percent(n) == [text |-> "%", pct |-> n]
None == [text |-> "None", pct |-> 0]

\* Analytics.calculate_success_rate(habit_id)
CalculateSuccessRate(ttbl, htbl, h) ==
    IF h \notin DOMAIN htbl THEN None
    ELSE LET tasks == {t \in DOMAIN ttbl : ttbl[t].habit_id = h}
             grouped == GroupTasksByPeriod(ttbl, tasks, htbl[h].repeat)
             successful_periods ==
                 Cardinality({k \in DOMAIN grouped : AllDone(ttbl, grouped[k])})
             total_periods == Cardinality(DOMAIN grouped)
         IN IF total_periods = 0 THEN NotAvailable
            ELSE LET rate == RoundedPercent(successful_periods, total_periods)
                 IN Percent(IF rate > 100 THEN 100 ELSE IF rate < 0 THEN 0 ELSE rate)

----------------------------------------------------------------------------

\* the empty store, before the first of calls engine calls
InitWith(calls) ==
    /\ habit = <<>>
    /\ task = <<>>
    /\ op = [name |-> "init", hid |-> NoId, ok |-> TRUE, F |-> NoFaults,
             rows |-> {}, status |-> "", field |-> "", date |-> NoDate, count |-> 0,
             valid |-> TRUE,
             n |-> 0, budget |-> calls,
             faults |-> 0]
    /\ sc = [h |-> NoId, step |-> 0]

Init == InitWith(MaxCalls)

HabitIds == 1 .. MaxHabitId

\* the selections a listing of the task table offers
RowSets == {rows \in SUBSET DOMAIN task : rows # {} /\ Cardinality(rows) <= MaxRows}

DueDates == {task[t].due_date : t \in DOMAIN task}

Next ==
    \/ \E data \in HabitInputs : CreateHabit(data, NoFaults)
    \/ \E h \in HabitIds, u \in UpdateInputs, today \in ClockDates :
          ProcessHabitUpdate(h, u[1], u[2], today, NoFaults)
    \/ \E h \in HabitIds : PauseHabit(h, NoFaults)
    \/ \E h \in HabitIds : IncrementStreak(h, NoFaults)
    \/ \E h \in HabitIds : ResetStreak(h, NoFaults)
    \/ \E h \in HabitIds : HabitIncrementStreak(h, NoFaults)
    \/ \E h \in HabitIds : HabitResetStreak(h, NoFaults)
    \/ \E data \in ModelInputs : HabitCreate(data, NoFaults)
    \/ \E h \in HabitIds, u \in ModelUpdates : HabitUpdate(h, u[1], u[2], NoFaults)
    \/ \E h \in HabitIds : DeleteHabit(h, NoFaults)
    \/ \E rows \in RowSets, status \in Statuses : ProcessTaskUpdates(rows, status, NoFaults)
    \/ \E h \in HabitIds, d \in DueDates : TaskCreateNextSeries(h, d, NoFaults)

Spec == Init /\ [][Next]_vars

\* the same entry points over a store whose writes can fail; inputs that differ only in
\* what validation rejects are left to Spec
FaultInputs ==
    { HabitData("a", 0, 2 * DayStep, "High", "Daily", 1),
      HabitData("b", 0, DayStep, "High", "Daily", MaxTaskInput),
      HabitData("a", 1, 1, "High", "Daily", 1) }

FaultUpdates == {<<"end", DayStep>>, <<"importance", "Paused">>}

NextF ==
    \/ \E data \in FaultInputs,
          F \in FaultSets({FHabitWrite, FHabitWrite2, FTaskDelete} \cup Inserts) :
          CreateHabit(data, F)
    \/ \E h \in HabitIds, u \in FaultUpdates, F \in FaultSets({FHabitWrite, FHabitWrite2}) :
          ProcessHabitUpdate(h, u[1], u[2], 0, F)
    \/ \E h \in HabitIds, F \in FaultSets({FHabitWrite, FHabitWrite2}) : PauseHabit(h, F)
    \/ \E h \in HabitIds, F \in FaultSets({FHabitWrite}) : IncrementStreak(h, F)
    \/ \E h \in HabitIds, F \in FaultSets({FHabitWrite, FHabitWrite2}) : ResetStreak(h, F)
    \/ \E h \in HabitIds, F \in FaultSets({FHabitWrite, FHabitWrite2}) :
          HabitIncrementStreak(h, F)
    \/ \E h \in HabitIds, F \in FaultSets({FHabitWrite, FHabitWrite2}) :
          HabitResetStreak(h, F)
    \/ \E data \in ModelInputs, F \in FaultSets({FHabitWrite}) : HabitCreate(data, F)
    \/ \E h \in HabitIds, u \in ModelUpdates, F \in FaultSets({FHabitWrite}) :
          HabitUpdate(h, u[1], u[2], F)
    \/ \E h \in HabitIds, F \in FaultSets({FHabitWrite, FTaskDelete}) : DeleteHabit(h, F)
    \/ \E rows \in RowSets, status \in Statuses :
          \E F \in FaultSets({FStatus(t) : t \in rows} \cup {FHabitWrite} \cup Inserts) :
              ProcessTaskUpdates(rows, status, F)
    \/ \E h \in HabitIds, d \in DueDates, F \in FaultSets(Inserts) :
          TaskCreateNextSeries(h, d, F)
    \/ \E F \in FaultSets({FRead}) : ReadData(F)

SpecF == Init /\ [][NextF]_vars

\* longer runs over a reliable store that follow single habits to their end date and
\* beyond: creation, resolution, a later end date, a changed task template, rollover
\* called again
GenInputs ==
    { HabitData("a", 0, DayStep, "High", "Daily", 1),
      HabitData("b", 0, 2 * DayStep, "Low", "Weekly", 1),
      HabitData("c", 0, WeekStep, "High", "Weekly", 1) }

GenEnds == {2 * DayStep, WeekStep}

\* a changed task count, a changed task description, a streak written as a field, the
\* end date removed (the column end is nullable), a shorter recurrence
GenUpdates ==
    {<<"tasks", MaxTaskInput>>, <<"tasks_description", "u">>, <<"streak", MaxCount>>,
     <<"end", NoDate>>, <<"repeat", "Daily">>}

InitG == InitWith(MaxGenCalls)

NextG ==
    \/ \E data \in GenInputs : CreateHabit(data, NoFaults)
    \/ \E h \in HabitIds, e \in GenEnds : ProcessHabitUpdate(h, "end", e, 0, NoFaults)
    \/ \E h \in HabitIds, u \in GenUpdates : HabitUpdate(h, u[1], u[2], NoFaults)
    \/ \E rows \in RowSets, status \in {"done", "ignore"} :
          ProcessTaskUpdates(rows, status, NoFaults)
    \/ \E h \in HabitIds, d \in DueDates : TaskCreateNextSeries(h, d, NoFaults)

SpecG == InitG /\ [][NextG]_vars

----------------------------------------------------------------------------
(* The date rules on calendar dates.  A date string 'YYYY-MM-DD' is the triple     *)
(* <<year, month, day>>; strptime turns it into a datetime, kept here as its       *)
(* proleptic Gregorian ordinal, timedelta adds days to it, strftime gives the      *)
(* string of the result.                                                           *)

Years == {2000, 2023, 2024, 2100}
Recurrences == {"Daily", "Weekly", "Monthly"}

IsLeap(y) == y % 4 = 0 /\ (y % 100 # 0 \/ y % 400 = 0)

DaysInMonth(y, m) ==
    IF m = 2 THEN (IF IsLeap(y) THEN 29 ELSE 28)
    ELSE IF m \in {4, 6, 9, 11} THEN 30 ELSE 31

\* the well-formed date strings of the years explored
Dates == {ymd \in Years \X (1 .. 12) \X (1 .. 31) : ymd[3] <= DaysInMonth(ymd[1], ymd[2])}

DaysBeforeYear(y) == (y - 1) * 365 + (y - 1) \div 4 - (y - 1) \div 100 + (y - 1) \div 400

RECURSIVE DaysBeforeMonth(_, _)
DaysBeforeMonth(y, m) ==
    IF m = 1 THEN 0 ELSE DaysBeforeMonth(y, m - 1) + DaysInMonth(y, m - 1)

\* datetime.strptime(s, '%Y-%m-%d') of a well-formed string
Strptime(ymd) == DaysBeforeYear(ymd[1]) + DaysBeforeMonth(ymd[1], ymd[2]) + ymd[3]

\* datetime.strftime('%Y-%m-%d')
Strftime(n) ==
    LET y == CHOOSE y \in {yy + k : yy \in Years, k \in {0, 1}} :
                 DaysBeforeYear(y) < n /\ n <= DaysBeforeYear(y + 1)
        m == CHOOSE m \in 1 .. 12 :
                 /\ DaysBeforeMonth(y, m) < n - DaysBeforeYear(y)
                 /\ n - DaysBeforeYear(y) <= DaysBeforeMonth(y, m) + DaysInMonth(y, m)
    IN <<y, m, n - DaysBeforeYear(y) - DaysBeforeMonth(y, m)>>

NoDateString == <<0, 0, 0>>      \* None

\* a week taken for a single day
GetNextDateStringShortWeek(current_date, repeat) ==
    IF repeat = "Daily" THEN Strftime(Strptime(current_date) + DayStep)
    ELSE IF repeat = "Weekly" THEN Strftime(Strptime(current_date) + DayStep)
    ELSE NoDateString

\* date_utils.get_next_date(current_date, repeat) on a well-formed date string
GetNextDateString(current_date, repeat) ==
    IF repeat = "Daily" THEN Strftime(Strptime(current_date) + DayStep)
    ELSE IF repeat = "Weekly" THEN Strftime(Strptime(current_date) + WeekStep)
    ELSE NoDateString

\* TaskController.calculate_next_due_date(repeat, strptime(current_due)) as a string
CalculateNextDueDateString(repeat, current_due) ==
    Strftime(CalculateNextDueDate(repeat, Strptime(current_due)))

\* one call of a date rule
DateCall(name, current, repeat, result) ==
    [name |-> name, current |-> current, repeat |-> repeat, result |-> result]

GetNextDateCall(current_date, repeat) ==
    /\ op.name = "init"
    /\ op' = DateCall("get_next_date", current_date, repeat,
                      GetNextDateString(current_date, repeat))
    /\ UNCHANGED <<habit, task, sc>>

CalculateNextDueDateCall(repeat, current_due) ==
    /\ op.name = "init"
    /\ op' = DateCall("calculate_next_due_date", current_due, repeat,
                      CalculateNextDueDateString(repeat, current_due))
    /\ UNCHANGED <<habit, task, sc>>

(* Elapsed days of a habit, on day numbers; the clock reads today *)

Days == 0 .. MaxDay

\* Analytics.calculate_passed_days(start, end): today when end is None; counted up to the
\* earlier of today and end
AnalyticsCalculatePassedDays(start, end, today) ==
    LET end_date == IF end = NoDate THEN today ELSE end
        reference_date == IF today < end_date THEN today ELSE end_date
    IN IF start <= reference_date THEN reference_date - start ELSE 0

\* Habit.get_days_passed
HabitGetDaysPassed(start, today) == today - start

\* AnalyticsController.calculate_passed_days(start_date)
CalculatePassedDays(start_date, today) ==
    IF start_date > today THEN 0 ELSE today - start_date

\* one call of an elapsed-days function for a habit with these dates
DaysCall(name, start, end, today, result) ==
    [name |-> name, start |-> start, end |-> end, today |-> today, result |-> result]

AnalyticsCalculatePassedDaysCall(start, end, today) ==
    /\ op.name = "init"
    /\ op' = DaysCall("Analytics.calculate_passed_days", start, end, today,
                      AnalyticsCalculatePassedDays(start, end, today))
    /\ UNCHANGED <<habit, task, sc>>

HabitGetDaysPassedCall(start, end, today) ==
    /\ op.name = "init"
    /\ op' = DaysCall("Habit.get_days_passed", start, end, today,
                      HabitGetDaysPassed(start, today))
    /\ UNCHANGED <<habit, task, sc>>

CalculatePassedDaysCall(start, end, today) ==
    /\ op.name = "init"
    /\ op' = DaysCall("AnalyticsController.calculate_passed_days", start, end, today,
                      CalculatePassedDays(start, today))
    /\ UNCHANGED <<habit, task, sc>>

(* models/analytics.py, controllers/analytics.py: filter and sort of the listing. *)
(* A text is the sequence of its characters.                                      *)

LowerChar(c) == IF c = "A" THEN "a" ELSE IF c = "B" THEN "b" ELSE c

\* str.lower()
Lower(text) == [i \in DOMAIN text |-> LowerChar(text[i])]

\* the Python operator 'in' on two strings
Contains(sub, text) ==
    \E i \in 0 .. Len(text) - Len(sub) : SubSeq(text, i + 1, i + Len(sub)) = sub

\* the records filtered: two text fields
FilterItems ==
    [name : {<<"A", "b">>, <<"b">>}, category : {<<"a">>, <<"B", "a">>}]

FilterValues == {<< >>, <<"a">>, <<"A">>, <<"a", "b">>}
FilterFields == {"name", "category", "colour"}

\* the lists of at most MaxLen records out of a set
Lists(items) == UNION {[1 .. n -> items] : n \in 0 .. MaxLen}

\* Analytics.filter_analytics_data(data, filter_by, value): item.get(filter_by, '')
FilterAnalyticsData(data, filter_by, value) ==
    LET field(item) == IF filter_by \in DOMAIN item THEN item[filter_by] ELSE << >>
        keep(item) == Contains(Lower(value), Lower(field(item)))
    IN SelectSeq(data, keep)

\* AnalyticsController.filter_habits(habits, filter_by, value)
FilterHabits(habits, filter_by, value) ==
    LET keep(item) == Contains(Lower(value), Lower(item[filter_by]))
    IN IF filter_by \notin {"name", "category", "description", "repeat", "status"}
       THEN habits
       ELSE SelectSeq(habits, keep)

FilterCall(name, data, filter_by, value, result) ==
    [name |-> name, data |-> data, filter_by |-> filter_by, value |-> value,
     result |-> result]

FilterAnalyticsDataCall(data, filter_by, value) ==
    /\ op.name = "init"
    /\ op' = FilterCall("filter_analytics_data", data, filter_by, value,
                        FilterAnalyticsData(data, filter_by, value))
    /\ UNCHANGED <<habit, task, sc>>

FilterHabitsCall(habits, filter_by, value) ==
    /\ op.name = "init"
    /\ op' = FilterCall("filter_habits", habits, filter_by, value,
                        FilterHabits(habits, filter_by, value))
    /\ UNCHANGED <<habit, task, sc>>

\* the records sorted: a success rate text and a streak, << >> for None
SortItems ==
    { [success_rate |-> NotAvailable, current_streak |-> << >>],
      [success_rate |-> NotAvailable, current_streak |-> <<0>>],
      [success_rate |-> Percent(50), current_streak |-> <<0>>],
      [success_rate |-> Percent(50), current_streak |-> <<2>>],
      [success_rate |-> Percent(100), current_streak |-> <<2>>] }

SortFields == {"success_rate", "current_streak", "colour"}

\* a missing value taken for 0
SortKeyNoneAsZero(item, sort_by) ==
    IF sort_by = "success_rate"
    THEN (IF item.success_rate # NotAvailable THEN item.success_rate.pct ELSE 0)
    ELSE IF sort_by \in {"current_streak", "reset_count", "days_passed"}
    THEN (IF item[sort_by] # << >> THEN item[sort_by][1] ELSE 0)
    ELSE 0

\* sort_key of Analytics.sort_analytics_data; all records share the key of a field that
\* is not in field_mapping
SortKey(item, sort_by) ==
    IF sort_by = "success_rate"
    THEN (IF item.success_rate # NotAvailable THEN item.success_rate.pct ELSE 0)
    ELSE IF sort_by \in {"current_streak", "reset_count", "days_passed"}
    THEN (IF item[sort_by] # << >> THEN item[sort_by][1] ELSE -1)
    ELSE 0

\* sorted(data, key, reverse): stable in both directions
RECURSIVE Sorted(_, _, _)
Sorted(data, sort_by, reverse) ==
    IF data = << >> THEN << >>
    ELSE LET done == Sorted(SubSeq(data, 1, Len(data) - 1), sort_by, reverse)
             x == data[Len(data)]
             before(e) == IF reverse THEN SortKey(e, sort_by) >= SortKey(x, sort_by)
                          ELSE SortKey(e, sort_by) <= SortKey(x, sort_by)
             n == Cardinality({i \in DOMAIN done : before(done[i])})
             \* x goes behind the last record that sorts before it or with it
             at == IF n = 0 THEN 0 ELSE Max({i \in DOMAIN done : before(done[i])})
         IN SubSeq(done, 1, at) \o <<x>> \o SubSeq(done, at + 1, Len(done))

\* Analytics.sort_analytics_data(data, sort_by, ascending)
SortAnalyticsData(data, sort_by, ascending) == Sorted(data, sort_by, ~ascending)

SortAnalyticsDataCall(data, sort_by, ascending) ==
    /\ op.name = "init"
    /\ op' = [name |-> "sort_analytics_data", data |-> data, sort_by |-> sort_by,
              ascending |-> ascending,
              result |-> SortAnalyticsData(data, sort_by, ascending)]
    /\ UNCHANGED <<habit, task, sc>>

NextD ==
    \/ \E data \in Lists(FilterItems), f \in FilterFields, v \in FilterValues :
          FilterAnalyticsDataCall(data, f, v)
    \/ \E data \in Lists(FilterItems), f \in FilterFields, v \in FilterValues :
          FilterHabitsCall(data, f, v)
    \/ \E data \in Lists(SortItems), f \in SortFields, asc \in BOOLEAN :
          SortAnalyticsDataCall(data, f, asc)
    \/ \E d \in Dates, r \in Recurrences : GetNextDateCall(d, r)
    \/ \E d \in Dates, r \in Recurrences : CalculateNextDueDateCall(r, d)
    \/ \E start \in Days, end \in Days \cup {NoDate}, today \in Days :
          AnalyticsCalculatePassedDaysCall(start, end, today)
    \/ \E start \in Days, end \in Days \cup {NoDate}, today \in Days :
          HabitGetDaysPassedCall(start, end, today)
    \/ \E start \in Days, end \in Days \cup {NoDate}, today \in Days :
          CalculatePassedDaysCall(start, end, today)

SpecD == Init /\ [][NextD]_vars

----------------------------------------------------------------------------
(* Properties *)

\* the task numbers of a set of task rows
Numbers(ttbl, S) == {ttbl[t].task_number : t \in S}

\* this step is a resolution that leaves the series of habit h due on d fully resolved,
\* which it was not before
BecomesResolved(h, d) ==
    /\ op'.name = "process_task_updates"
    /\ SeriesOf(task, h, d) # {}
    /\ ~AllHandled(task, SeriesOf(task, h, d))
    /\ \E t \in op'.rows : t \in SeriesOf(task, h, d)
    /\ AllHandled(task', SeriesOf(task, h, d))

\* C1: after a successful create_habit the tasks of the new habit due on its start date
\* are exactly task-count tasks, numbered 1..task-count each once, all pending
C1_InitialSeries ==
    (op.name = "create_habit" /\ op.ok) =>
        LET S == SeriesOf(task, op.hid, habit[op.hid].start)
        IN /\ Cardinality(S) = habit[op.hid].tasks
           /\ Numbers(task, S) = 1 .. habit[op.hid].tasks
           /\ \A t \in S : task[t].status = "pending"

C1_Witness ==
    /\ op.name = "create_habit" /\ op.ok
    /\ habit[op.hid].tasks = MaxTaskInput
    /\ Cardinality(SeriesOf(task, op.hid, habit[op.hid].start)) = MaxTaskInput

C3_ResetAfterMixedSeries ==
    [][\A h \in DOMAIN habit : \A d \in DueDates :
          (BecomesResolved(h, d) /\ ~AllDone(task', SeriesOf(task, h, d))) =>
              /\ h \in DOMAIN habit'
              /\ habit'[h].streak = 0
              /\ habit'[h].streak_reset_count = habit[h].streak_reset_count + 1]_vars

\* this step is the rollover of the series of habit h due on d, by either implementation
RolloverOf(h, d) ==
    \/ BecomesResolved(h, d)
    \/ op'.name = "Task.create_next_series" /\ op'.hid = h /\ op'.date = d

\* C4: when the series of a habit due on d becomes fully resolved, the series at the next
\* due date exists afterwards if that date is not after the habit's end date (the end
\* date itself included), and no task is created for that date if it is after the end
C4_NextSeriesIffNotPastEnd ==
    [][\A h \in DOMAIN habit : \A d \in DueDates :
          RolloverOf(h, d) =>
              LET next_due == CalculateNextDueDate(habit[h].repeat, d)
              IN IF next_due <= habit[h].end
                 THEN /\ SeriesOf(task', h, next_due) # {}
                      /\ \A t \in SeriesOf(task', h, next_due) \ DOMAIN task :
                            task'[t].status = "pending"
                 ELSE SeriesOf(task', h, next_due) = SeriesOf(task, h, next_due)]_vars

\* a resolved series whose next due date is the end date, with the series created there
C4_Witness ==
    /\ op.name = "process_task_updates" /\ op.ok
    /\ \E t \in op.rows : \E h \in DOMAIN habit :
          /\ task[t].habit_id = h
          /\ AllHandled(task, SeriesOf(task, h, task[t].due_date))
          /\ CalculateNextDueDate(habit[h].repeat, task[t].due_date) = habit[h].end
          /\ \E u \in SeriesOf(task, h, habit[h].end) : task[u].status = "pending"

\* C5: after a successful delete_habit(H) there is no habit H and no task of habit H
C5_DeleteRemovesTasks ==
    (op.name = "delete_habit" /\ op.ok) =>
        /\ op.hid \notin DOMAIN habit
        /\ \A t \in DOMAIN task : task[t].habit_id # op.hid

\* habit 1 deleted while habit 2 and its tasks stay
C5_Witness ==
    /\ op.name = "delete_habit" /\ op.ok /\ op.hid = 1
    /\ 2 \in DOMAIN habit
    /\ \E t \in DOMAIN task : task[t].habit_id = 2

\* C6: the scenario habit (Daily, end = start + 2, one task per series), its series
\* resolved in order as done, ignore, done: after the first resolution streak 1 and a
\* series at start + 1; after the second streak 0, reset count 1 and a series at
\* start + 2; after the third streak 1, no series at start + 3 and no pending task
C6_EndToEnd ==
    sc.step >= 2 =>
        LET h == habit[sc.h]
            mine == {t \in DOMAIN task : task[t].habit_id = sc.h}
        IN /\ sc.step = 2 =>
                /\ h.streak = 1
                /\ SeriesOf(task, sc.h, h.start + DayStep) # {}
           /\ sc.step = 3 =>
                /\ h.streak = 0 /\ h.streak_reset_count = 1
                /\ SeriesOf(task, sc.h, h.start + 2 * DayStep) # {}
           /\ sc.step = 4 =>
                /\ h.streak = 1
                /\ SeriesOf(task, sc.h, h.start + 3 * DayStep) = {}
                /\ \A t \in mine : task[t].status # "pending"

\* C7: after every completed call each habit has 0 <= streak <= longest streak
C7_StreakAtMostLongest ==
    \A h \in DOMAIN habit :
        0 <= habit[h].streak /\ habit[h].streak <= habit[h].longest_streak

\* this step is a request to pause habit h, through the update entry point or directly
PauseOf(h) ==
    /\ op'.hid = h
    /\ \/ op'.name = "pause_habit"
       \/ op'.name = "process_habit_update" /\ op'.status = "Paused"

\* C8: pausing is one atomic step: when it succeeds streak is 0, importance is Paused and
\* the reset count is the one before plus 1, and whether or not a write fails the habit
\* is never left with streak or importance changed and the reset count unchanged
C8_PauseAtomic ==
    [][\A h \in DOMAIN habit :
          PauseOf(h) =>
              /\ h \in DOMAIN habit'
              /\ op'.ok =>
                    /\ habit'[h].streak = 0
                    /\ habit'[h].importance = "Paused"
                    /\ habit'[h].streak_reset_count = habit[h].streak_reset_count + 1
              /\ habit'[h] # habit[h] =>
                    habit'[h].streak_reset_count = habit[h].streak_reset_count + 1]_vars

\* C9: every habit with an end date has start < end, whatever creates and updates ran
C9_StartBeforeEnd ==
    \A h \in DOMAIN habit : habit[h].end # NoDate => habit[h].start < habit[h].end

\* some insert of the initial series failed and some succeeded
Partway(o) ==
    /\ o.name = "create_habit" /\ o.hid # NoId
    /\ \E n \in 1 .. o.count : FInsert(n) \in o.F
    /\ \E n \in 1 .. o.count : FInsert(n) \notin o.F

\* C10: when the initial series of create_habit fails partway, create_habit fails and
\* neither the new habit nor any task of it is in the store afterwards
C10_PartialSeriesRolledBack ==
    Partway(op) =>
        /\ ~op.ok
        /\ op.hid \notin DOMAIN habit
        /\ \A t \in DOMAIN task : task[t].habit_id # op.hid

\* this step is a habit creation or a one-field update whose record fails validation
InvalidMutation ==
    /\ op'.name \in {"create_habit", "Habit.create", "process_habit_update", "Habit.update"}
    /\ ~op'.valid

\* C11: a creation or update whose data fails validation reports failure and leaves the
\* store as it was: no habit inserted or modified, no task created
C11_InvalidLeavesStore ==
    [][InvalidMutation => (~op'.ok /\ habit' = habit /\ task' = task)]_vars

\* C12: delete_habit of an absent id fails and changes nothing; of an existing habit it
\* either removes the habit and all its tasks or, when a deletion fails, leaves both
C12_DeleteAllOrNothing ==
    [][op'.name = "delete_habit" =>
          IF op'.hid \notin DOMAIN habit
          THEN ~op'.ok /\ habit' = habit /\ task' = task
          ELSE \/ /\ op'.hid \notin DOMAIN habit'
                  /\ \A t \in DOMAIN task' : task'[t].habit_id # op'.hid
               \/ habit' = habit /\ task' = task]_vars

\* C13: a resolution whose target status is not done or ignore fails and leaves the
\* stored status of every task it names as it was
C13_InvalidStatusRejected ==
    [][(op'.name = "process_task_updates" /\ op'.status \notin {"done", "ignore"}) =>
          /\ ~op'.ok
          /\ \A t \in op'.rows : task'[t].status = task[t].status]_vars

\* the listing for a reference date: the pending tasks due on or before it whose habit
\* exists and is not Paused, each with its habit's name and streak
PendingViews(ref) ==
    {TaskView(task, habit, t) :
        t \in {t \in DOMAIN task : /\ task[t].status = "pending"
                                   /\ task[t].due_date <= ref
                                   /\ task[t].habit_id \in DOMAIN habit
                                   /\ habit[task[t].habit_id].importance # "Paused"}}

\* C14: for every reference date both listings return exactly the pending tasks due on
\* or before it whose habit exists and is not Paused, with that habit's name and streak
C14_PendingListing ==
    \A today \in ClockDates :
        /\ TaskGetPending(task, habit, today) = PendingViews(today)
        /\ ~GetPendingTasks(task, habit, today).raised
        /\ GetPendingTasks(task, habit, today).rows = PendingViews(today)

\* the periods of habit h, and those of them with no pending task left
PeriodsOf(h) ==
    GroupTasksByPeriod(task, {t \in DOMAIN task : task[t].habit_id = h}, habit[h].repeat)

ResolvedPeriods(h) == {k \in DOMAIN PeriodsOf(h) : AllHandled(task, PeriodsOf(h)[k])}

\* C15: the success rate of a habit reads "N/A" while none of its periods is resolved,
\* and from then on the percentage of its periods whose tasks are all done, within 0..100
C15_SuccessRate ==
    \A h \in DOMAIN habit :
        LET rate == CalculateSuccessRate(task, habit, h)
            done == {k \in DOMAIN PeriodsOf(h) : AllDone(task, PeriodsOf(h)[k])}
        IN IF ResolvedPeriods(h) = {}
           THEN rate = NotAvailable
           ELSE /\ rate = Percent(RoundedPercent(Cardinality(done),
                                                 Cardinality(DOMAIN PeriodsOf(h))))
                /\ rate.pct \in 0 .. 100

\* the calendar day after a date, and the date n days after it
NextDay(ymd) ==
    IF ymd[3] < DaysInMonth(ymd[1], ymd[2]) THEN <<ymd[1], ymd[2], ymd[3] + 1>>
    ELSE IF ymd[2] < 12 THEN <<ymd[1], ymd[2] + 1, 1>>
    ELSE <<ymd[1] + 1, 1, 1>>

RECURSIVE DaysLater(_, _)
DaysLater(ymd, n) == IF n = 0 THEN ymd ELSE DaysLater(NextDay(ymd), n - 1)

IsDateCall == op.name \in {"get_next_date", "calculate_next_due_date"}

\* C16: both next-due-date rules give the calendar date one day later for Daily and seven
\* days later for Weekly, whatever month or year boundary lies in between
C16_NextDueDate ==
    IsDateCall =>
        /\ op.repeat = "Daily" => op.result = DaysLater(op.current, 1)
        /\ op.repeat = "Weekly" => op.result = DaysLater(op.current, 7)

C16_Witness ==
    /\ op.name = "get_next_date" /\ op.repeat = "Weekly"
    /\ op.current = <<2023, 12, 28>> /\ op.result = <<2024, 1, 4>>

\* C17: a next-due-date rule given a recurrence other than Daily and Weekly returns no date
C17_UnknownRecurrenceFails ==
    (IsDateCall /\ op.repeat \notin {"Daily", "Weekly"}) => op.result = NoDateString

IsDaysCall ==
    op.name \in {"Analytics.calculate_passed_days", "Habit.get_days_passed",
                 "AnalyticsController.calculate_passed_days"}

\* C18: the elapsed days of a habit are 0 when its start is after the reference date and
\* reference - start otherwise, never negative, the reference being the earlier of today
\* and the end date when there is one
C18_ElapsedDays ==
    IsDaysCall =>
        LET reference == IF op.end # NoDate /\ op.end < op.today THEN op.end ELSE op.today
        IN /\ op.result >= 0
           /\ op.result = IF op.start > reference THEN 0 ELSE reference - op.start

IsFilterCall == op.name \in {"filter_analytics_data", "filter_habits"}

\* whether the text of a field contains the value, letter case apart
Matches(item, field, value) == Contains(Lower(value), Lower(item[field]))

\* the records of a list that match, in the order of the list
RECURSIVE Matching(_, _, _)
Matching(data, field, value) ==
    IF data = << >> THEN << >>
    ELSE (IF Matches(Head(data), field, value) THEN <<Head(data)>> ELSE << >>)
         \o Matching(Tail(data), field, value)

\* C19: filter on a field of the records returns the records whose field contains the
\* value case-insensitively, in input order; on a name that is no field it returns its
\* input unchanged
C19_Filter ==
    IsFilterCall =>
        IF op.filter_by \in {"name", "category"}
        THEN op.result = Matching(op.data, op.filter_by, op.value)
        ELSE op.result = op.data

\* how often a record occurs in a list
Count(list, item) == Cardinality({i \in DOMAIN list : list[i] = item})

\* the key of a record: a percentage field by its number, "N/A" as 0; a numeric field by
\* its value, an absent value as -1
KeyOf(item, field) ==
    IF field = "success_rate"
    THEN (IF item.success_rate.text = "N/A" THEN 0 ELSE item.success_rate.pct)
    ELSE (IF Len(item[field]) = 0 THEN -1 ELSE item[field][1])

Returned(o) ==
    IF o.name = "read_data" THEN (IF o.rows = {} THEN "[]" ELSE "rows")
    ELSE IF o.ok THEN "True" ELSE "False"

\* what the entry point hands back for an id that names no row, resp. for an empty table
DomainOutcome(name) == IF name = "read_data" THEN "[]" ELSE "False"

\* this step is a call whose store access is reached and fails: the first write of a
\* call naming an existing habit, or the SELECT of a read
StoreFailure ==
    \/ /\ op'.name \in {"increment_streak", "reset_streak", "pause_habit",
                        "delete_habit", "Habit.update"}
       /\ op'.hid \in DOMAIN habit
       /\ FHabitWrite \in op'.F
    \/ op'.name = "read_data" /\ FRead \in op'.F

\* C21: a call whose store access fails hands back a value other than the one it hands
\* back for a domain outcome: a failed read is not an empty result, a failed write is not
\* the value returned for not-found
C21_StorageErrorDistinct ==
    [][StoreFailure => Returned(op') # DomainOutcome(op'.name)]_vars

\* the tasks of habit h
TasksOf(ttbl, h) == {t \in DOMAIN ttbl : ttbl[t].habit_id = h}

\* generation for habit h has stopped: it has tasks and none is pending.  Under SpecG
\* rollover runs with every resolution and fails on no store error, so this is a state
\* reached from the rollover of the habit's last series finding the next due date past
\* the end date
Stopped(h) == TasksOf(task, h) # {} /\ AllHandled(task, TasksOf(task, h))

\* C22: once rollover has found the next due date of a habit past its end date, no task
\* is created for that habit again
C22_GenerationStops ==
    [][\A h \in DOMAIN habit :
          Stopped(h) => \A t \in DOMAIN task' \ DOMAIN task : task'[t].habit_id # h]_vars

\* C23: an increment_streak call on a habit whose streak does not exceed its longest
\* streak leaves it so, whichever of its store writes fails
C23_IncrementAsOneUnit ==
    [][\A h \in DOMAIN habit :
          (/\ op'.name \in {"increment_streak", "Habit.increment_streak"}
           /\ op'.hid = h
           /\ habit[h].streak <= habit[h].longest_streak) =>
              habit'[h].streak <= habit'[h].longest_streak]_vars

\* the three states of a series S of the task table
SeriesOpen(ttbl, S) == \E t \in S : ttbl[t].status = "pending"
SeriesSuccess(ttbl, S) == \A t \in S : ttbl[t].status = "done"
SeriesMixed(ttbl, S) ==
    /\ \A t \in S : ttbl[t].status \in {"done", "ignore"}
    /\ \E t \in S : ttbl[t].status = "ignore"

\* how many of the three states the series is in
SeriesStateCount(ttbl, S) ==
    Cardinality({i \in 1 .. 3 : \/ (i = 1 /\ SeriesOpen(ttbl, S))
                               \/ (i = 2 /\ SeriesSuccess(ttbl, S))
                               \/ (i = 3 /\ SeriesMixed(ttbl, S))})

\* C24: every task status is pending, done or ignore, and every series in the store is
\* in exactly one of the states Open, Resolved-Success, Resolved-Mixed
C24_SeriesStates ==
    /\ \A t \in DOMAIN task : task[t].status \in {"pending", "done", "ignore"}
    /\ \A t \in DOMAIN task :
          SeriesStateCount(task, SeriesOf(task, task[t].habit_id, task[t].due_date)) = 1

\* C25: a step other than the deletion of a habit leaves every task of a resolved series
\* (all its tasks done or ignore) in the store with its status
C25_ResolvedIsTerminal ==
    [][\A t \in DOMAIN task :
          (/\ AllHandled(task, SeriesOf(task, task[t].habit_id, task[t].due_date))
           /\ op'.name # "delete_habit") =>
              t \in DOMAIN task' /\ task'[t].status = task[t].status]_vars

\* this step resolves pending tasks only, to done or to ignore
ResolvesPending ==
    /\ op'.name = "process_task_updates"
    /\ op'.status \in {"done", "ignore"}
    /\ \A t \in op'.rows : task[t].status = "pending"

\* every series with a task named by the step is Open after it
StillOpen ==
    \A t \in op'.rows :
        SeriesOpen(task', SeriesOf(task', task[t].habit_id, task[t].due_date))

\* C26: resolving pending tasks to done or ignore succeeds and stores the target status;
\* when their series are still Open afterwards nothing else changes: the other tasks
\* are as before, no task is created, the habits (streak, longest streak, reset count)
\* are unchanged
C26_ResolveOpenSeriesFrame ==
    [][ResolvesPending =>
          /\ op'.ok
          /\ \A t \in op'.rows : t \in DOMAIN task' /\ task'[t].status = op'.status
          /\ StillOpen =>
                /\ DOMAIN task' = DOMAIN task
                /\ \A t \in DOMAIN task :
                      task'[t] = IF t \in op'.rows
                                 THEN [task[t] EXCEPT !.status = op'.status]
                                 ELSE task[t]
                /\ habit' = habit]_vars

\* one task of a series of MaxTaskInput tasks resolved as done, the series still Open
C26_Witness ==
    /\ op.name = "process_task_updates" /\ op.ok /\ op.status = "done"
    /\ \E t \in op.rows :
          LET S == SeriesOf(task, task[t].habit_id, task[t].due_date)
          IN /\ task[t].status = "done"
             /\ Cardinality(S) = MaxTaskInput
             /\ SeriesOpen(task, S)
             /\ task[t].habit_id \in DOMAIN habit
             /\ habit[task[t].habit_id].streak = 0

\* C27: the series a rollover creates has as many tasks as the habit's task count at
\* the time of the rollover, each with the habit's task description at that time
C27_NextSeriesFollowsHabit ==
    [][\A h \in DOMAIN habit : \A d \in DueDates :
          LET next_due == CalculateNextDueDate(habit[h].repeat, d)
              S == SeriesOf(task', h, next_due)
          IN (/\ RolloverOf(h, d)
              /\ next_due <= habit[h].end
              /\ SeriesOf(task, h, next_due) = {}) =>
                 /\ Cardinality(S) = habit[h].tasks
                 /\ \A t \in S : task'[t].task_description = habit[h].tasks_description]_vars

\* C28: when the insert of task k fails during a rollover, the step creates no task
\* numbered above k, and a rollover that reached that insert reports failure
C28_RolloverAbortsAtFailure ==
    [][\A k \in 1 .. MaxTaskInput :
          (/\ op'.name \in {"process_task_updates", "Task.create_next_series"}
           /\ FInsert(k) \in op'.F) =>
              /\ \A t \in DOMAIN task' \ DOMAIN task : task'[t].task_number <= k
              /\ (/\ op'.name = "Task.create_next_series"
                  /\ NextSeriesDue(habit, op'.hid, op'.date)
                  /\ k <= habit[op'.hid].tasks) => ~op'.ok]_vars

\* the step met a failing insert while creating the series after the one due on d
CreationFailed(h, d) ==
    LET next_due == CalculateNextDueDate(habit[h].repeat, d)
    IN /\ next_due <= habit[h].end
       /\ \E k \in 1 .. Cardinality(SeriesOf(task, h, d)) : FInsert(k) \in op'.F
       /\ Cardinality(SeriesOf(task', h, next_due)) < Cardinality(SeriesOf(task, h, d))

\* C29: when a resolution completes a series and the creation of the next series fails,
\* the habit's counters are at their updated values all the same: streak + 1 after an
\* all-done series, streak 0 and reset count + 1 after a mixed one
C29_CountersBeforeSeries ==
    [][\A h \in DOMAIN habit : \A d \in DueDates :
          (BecomesResolved(h, d) /\ CreationFailed(h, d)) =>
              IF AllDone(task', SeriesOf(task, h, d))
              THEN habit'[h].streak = habit[h].streak + 1
              ELSE /\ habit'[h].streak = 0
                   /\ habit'[h].streak_reset_count = habit[h].streak_reset_count + 1]_vars

\* the days on which the listings are read
ListingDays == 0 .. 2 * DayStep

\* a listing without the rows of the tasks of habit h
WithoutHabit(views, ttbl, h) == {v \in views : ttbl[v.id].habit_id # h}

\* C30: a successful pause_habit(h) leaves the task table as it was and takes exactly
\* the tasks of h out of both pending listings; a resolution that completes a series of
\* a Paused habit creates the next series unless its due date is past the end date
C30_PauseKeepsTasks ==
    [][/\ (op'.name = "pause_habit" /\ op'.ok) =>
            /\ task' = task
            /\ \A today \in ListingDays :
                  /\ TaskGetPending(task', habit', today)
                        = WithoutHabit(TaskGetPending(task, habit, today), task, op'.hid)
                  /\ GetPendingTasks(task', habit', today).raised
                        = GetPendingTasks(task, habit, today).raised
                  /\ GetPendingTasks(task', habit', today).rows
                        = WithoutHabit(GetPendingTasks(task, habit, today).rows,
                                       task, op'.hid)
       /\ \A h \in DOMAIN habit : \A d \in DueDates :
            (BecomesResolved(h, d) /\ habit[h].importance = "Paused") =>
                LET next_due == CalculateNextDueDate(habit[h].repeat, d)
                IN next_due <= habit[h].end => SeriesOf(task', h, next_due) # {}]_vars

\* habit 1 paused with a pending task due, while the task of habit 2 is still listed
C30_Witness ==
    /\ op.name = "pause_habit" /\ op.ok /\ op.hid = 1
    /\ habit[1].importance = "Paused"
    /\ \E t \in DOMAIN task : task[t].habit_id = 1 /\ task[t].status = "pending"
    /\ \E v \in TaskGetPending(task, habit, 0) : task[v.id].habit_id = 2
    /\ \A v \in TaskGetPending(task, habit, 0) : task[v.id].habit_id # 1

\* C31: an update of one field other than importance = Paused leaves the habit's
\* streak, longest streak and reset count as they were
C31_UpdateKeepsCounters ==
    [][\A h \in DOMAIN habit :
          (/\ op'.name \in {"process_habit_update", "Habit.update"}
           /\ op'.hid = h
           /\ ~(op'.field = "importance" /\ op'.status = "Paused")) =>
              /\ h \in DOMAIN habit'
              /\ habit'[h].streak = habit[h].streak
              /\ habit'[h].longest_streak = habit[h].longest_streak
              /\ habit'[h].streak_reset_count = habit[h].streak_reset_count]_vars

\* C32: the task numbers of every series in the store are 1..N, each once
C32_ContiguousNumbers ==
    \A t \in DOMAIN task :
        LET S == SeriesOf(task, task[t].habit_id, task[t].due_date)
        IN Numbers(task, S) = 1 .. Cardinality(S)

\* the series S of the task table is resolved
SeriesResolved(ttbl, S) == SeriesSuccess(ttbl, S) \/ SeriesMixed(ttbl, S)

\* the step creates a task
CreatesTask == ~(DOMAIN task' \subseteq DOMAIN task)

\* the series the step resolves tasks of, or is called with: their tasks before the
\* rollover adds any
StepSeries ==
    IF op'.name = "process_task_updates"
    THEN {SeriesOf(task, task[t].habit_id, task[t].due_date) : t \in op'.rows}
    ELSE {SeriesOf(task, op'.hid, op'.date)}

C34_HighWaterMark ==
    [][\A h \in DOMAIN habit \cap DOMAIN habit' :
          habit'[h].name = habit[h].name =>
              /\ habit'[h].longest_streak = Max({habit[h].longest_streak, habit'[h].streak})
              /\ habit'[h].streak_reset_count >= habit[h].streak_reset_count]_vars

\* the due dates of the resolved series of habit h, and of those resolved with an ignore
ResolvedDates(ttbl, h) ==
    {d \in {ttbl[t].due_date : t \in TasksOf(ttbl, h)} : AllHandled(ttbl, SeriesOf(ttbl, h, d))}

IgnoredDates(ttbl, h) ==
    {d \in ResolvedDates(ttbl, h) : ~AllDone(ttbl, SeriesOf(ttbl, h, d))}

\* the number of most recent resolved series in a row that resolved with all tasks done
DoneRun(ttbl, h) ==
    Cardinality({d \in ResolvedDates(ttbl, h) :
                    \A e \in ResolvedDates(ttbl, h) : e >= d => e \notin IgnoredDates(ttbl, h)})

CountersFollowSeries(htbl, ttbl, h) ==
    /\ htbl[h].streak = DoneRun(ttbl, h)
    /\ htbl[h].streak_reset_count = Cardinality(IgnoredDates(ttbl, h))

\* a resolution of pending tasks of the one habit h, which is not Paused
ResolvesOnce(h) ==
    /\ op'.name = "process_task_updates" /\ op'.ok
    /\ op'.status \in {"done", "ignore"}
    /\ \A t \in op'.rows : task[t].habit_id = h /\ task[t].status = "pending"
    /\ h \in DOMAIN habit /\ habit[h].importance # "Paused"

\* C35: when the streak of a habit is the number of its most recent consecutive all-done
\* series and its reset count the number of its series resolved with an ignore, a
\* resolution of pending tasks of that habit, with its rollover, leaves them so
C35_CountersFollowSeries ==
    [][\A h \in DOMAIN habit :
          (ResolvesOnce(h) /\ CountersFollowSeries(habit, task, h)) =>
              CountersFollowSeries(habit', task', h)]_vars

\* C36: every rollover of a resolved series of a habit without end date leaves the
\* series at the next recurrence date in the store
C36_OpenEndedGenerates ==
    [][\A h \in DOMAIN habit : \A d \in DueDates :
          (/\ RolloverOf(h, d)
           /\ habit[h].end = NoDate
           /\ habit[h].repeat \in {"Daily", "Weekly"}) =>
              SeriesOf(task', h, CalculateNextDueDate(habit[h].repeat, d)) # {}]_vars

\* the due dates of the series of habit h that hold a pending task
OpenDates(ttbl, h) == {ttbl[t].due_date : t \in {u \in TasksOf(ttbl, h) : ttbl[u].status = "pending"}}

\* C37: no habit has pending tasks in two of its series
C37_OneOpenSeries ==
    \A h \in DOMAIN habit : Cardinality(OpenDates(task, h)) <= 1

\* C38: no task of a stored habit is due before the habit's start date, or after its
\* end date when it has one
C38_TasksWithinHabitDates ==
    \A t \in DOMAIN task :
        task[t].habit_id \in DOMAIN habit =>
            LET h == task[t].habit_id
            IN /\ task[t].due_date >= habit[h].start
               /\ habit[h].end # NoDate => task[t].due_date <= habit[h].end

\* C39: in every state, for every resolved series of a stored habit, the rollover of
\* TaskController.create_next_tasks and that of Task.create_next_series leave the same
\* task table on a reliable store
C39_RolloversAgree ==
    \A h \in DOMAIN habit : \A d \in DueDates :
        (SeriesOf(task, h, d) # {} /\ AllHandled(task, SeriesOf(task, h, d))) =>
            CreateNextTasks(task, habit, h, d, NoFaults)
                = CreateNextSeriesTbl(task, habit, h, d, NoFaults)

====
